---- MODULE Spec2Model ----
(***************************************************************************)
(* Model of FinancialAnalysisReport (the household analysis report, the    *)
(* financial goals summary and their helpers) and of the part of main()    *)
(* that constructs the object and calls the two generators.                *)
(*                                                                         *)
(* Python values are tagged records:                                       *)
(*   [type |-> "int", val |-> n]             an int                        *)
(*   [type |-> "float", num |-> n, den |-> d] a float of value n/d, d > 0  *)
(*   [type |-> "str", chars |-> s]           a str, s a sequence of chars  *)
(*   [type |-> "NoneType"]                   None                          *)
(*   [type |-> "missing"]                    a key absent from a dict      *)
(* Text of the source that is not ASCII is written in ASCII here:          *)
(*   the currency suffix (won) is the character "W"; the tier labels are   *)
(*   "very-good", "good", "fair", "needs-improvement", "poor"; the bond    *)
(*   keyword is "BOND", the Nasdaq keyword "NASDAQ", the Nikkei keyword    *)
(*   "NIKKEI".                                                             *)
(* Quotients the code computes as floats (ratios, months, monthly          *)
(* amounts) are exact rationals [num, den] here, compared by cross         *)
(* multiplication.                                                         *)
(* A report is the record of the values the generator computes; their      *)
(* rendering into text (the f-strings, _format_currency, to_string) is     *)
(* left out.  The amounts of a profile and of a goal are ints or strings;  *)
(* floats are inputs of _extract_amount only.                              *)
(***************************************************************************)
EXTENDS Integers, Sequences, FiniteSets, TLC

VARIABLES
    client_profile,     \* self.client_profile
    goal_list,          \* self.goal_list
    asset_names,        \* self.asset_names
    yearly_weights,     \* self.yearly_weights
    pc,                 \* position in main(), or in a direct call of a helper
    household_report,   \* what generate_household_analysis_report produced
    goals_report,       \* what generate_financial_goals_summary produced
    amount_str,         \* argument of a direct call of _extract_amount
    amount              \* value that call returned

vars == <<client_profile, goal_list, asset_names, yearly_weights, pc,
          household_report, goals_report, amount_str, amount>>

(***************************************************************************)
(* Bounds of the model.                                                    *)
(***************************************************************************)
MaxLen == 3          \* longest amount string given to _extract_amount
MaxGoals == 2        \* longest goal list
MaxAssets == 2       \* longest asset-name list
MaxCategories == 6   \* most categories in one month's expense mapping
MaxAmountLevel == 3  \* category amounts are 1..MaxAmountLevel
MaxMonths == 4       \* most months in the cash-flow history
MaxMetric == 110     \* metric values compared against in the tier checks

(***************************************************************************)
(* Python values.                                                          *)
(***************************************************************************)
PyInt(n) == [type |-> "int", val |-> n]
PyFloat(n, d) == [type |-> "float", num |-> n, den |-> d]
PyStr(s) == [type |-> "str", chars |-> s]
PyNone == [type |-> "NoneType"]
Missing == [type |-> "missing"]

\* dict.get(key, default)
Get(field, default) == IF field.type = "missing" THEN default ELSE field

NotCalled == [status |-> "not-called"]

Digits == {"0", "1", "2", "3", "4", "5", "6", "7", "8", "9"}

DigitVal(c) ==
    CASE c = "0" -> 0 [] c = "1" -> 1 [] c = "2" -> 2 [] c = "3" -> 3
      [] c = "4" -> 4 [] c = "5" -> 5 [] c = "6" -> 6 [] c = "7" -> 7
      [] c = "8" -> 8 [] c = "9" -> 9

\* str.replace(ch, ''): every occurrence of ch removed
RECURSIVE Remove(_, _)
Remove(s, ch) ==
    IF s = <<>> THEN <<>>
    ELSE IF Head(s) = ch THEN Remove(Tail(s), ch)
    ELSE <<Head(s)>> \o Remove(Tail(s), ch)

RECURSIVE LStrip(_)
LStrip(s) ==
    IF s = <<>> THEN <<>>
    ELSE IF Head(s) = " " THEN LStrip(Tail(s)) ELSE s

RECURSIVE RStrip(_)
RStrip(s) ==
    IF s = <<>> THEN <<>>
    ELSE IF s[Len(s)] = " " THEN RStrip(SubSeq(s, 1, Len(s) - 1)) ELSE s

\* str.strip()
Strip(s) == RStrip(LStrip(s))

RECURSIVE DigitsValue(_)
DigitsValue(s) ==
    IF s = <<>> THEN 0
    ELSE 10 * DigitsValue(SubSeq(s, 1, Len(s) - 1)) + DigitVal(s[Len(s)])

AllDigits(s) == s # <<>> /\ \A i \in 1..Len(s) : s[i] \in Digits

\* int(s) of a stripped string over the characters of AmountChars: an
\* optional sign and then digits only; anything else raises ValueError
IntParses(s) ==
    IF s # <<>> /\ Head(s) \in {"-", "+"} THEN AllDigits(Tail(s)) ELSE AllDigits(s)

IntOf(s) ==
    IF Head(s) = "-" THEN 0 - DigitsValue(Tail(s))
    ELSE IF Head(s) = "+" THEN DigitsValue(Tail(s))
    ELSE DigitsValue(s)

cleaned(amount_s) == Strip(Remove(Remove(amount_s.chars, ","), "W"))

\* a number is returned as it is; a string is cleaned and given to int(),
\* and 0 is returned when int() raises; anything else gives 0
_extract_amount(amount_s) ==
    IF amount_s.type \in {"int", "float"} THEN amount_s
    ELSE IF amount_s.type = "str" THEN
        IF IntParses(cleaned(amount_s)) THEN PyInt(IntOf(cleaned(amount_s)))
        ELSE PyInt(0)
    ELSE PyInt(0)

(***************************************************************************)
(* Quotients: the float n/d as the exact rational, d > 0.                  *)
(***************************************************************************)
Ratio(n, d) == [num |-> n, den |-> d]
Zero == Ratio(0, 1)
LE(r, k) == r.num <= k * r.den
GE(r, k) == r.num >= k * r.den
LT(r, k) == r.num < k * r.den
GT(r, k) == r.num > k * r.den

\* a / b compared with n / d for ints a, b and b # 0, d > 0
QuotLE(a, b, n, d) == IF b > 0 THEN a * d <= n * b ELSE a * d >= n * b
QuotGT(a, b, n, d) == ~QuotLE(a, b, n, d)

ZeroDivisionError == [status |-> "ZeroDivisionError"]

(***************************************************************************)
(* Rating engine.                                                          *)
(***************************************************************************)
_evaluate_expense_ratio(ratio) ==
    IF LE(ratio, 70) THEN "very-good"
    ELSE IF LE(ratio, 80) THEN "good"
    ELSE IF LE(ratio, 90) THEN "fair"
    ELSE IF LE(ratio, 100) THEN "needs-improvement"
    ELSE "poor"

\* the slip: the labels of the 20 and the 10 cutoffs exchanged
_evaluate_savings_rate_swapped(rate) ==
    IF GE(rate, 30) THEN "very-good"
    ELSE IF GE(rate, 20) THEN "fair"
    ELSE IF GE(rate, 10) THEN "good"
    ELSE IF GE(rate, 5) THEN "needs-improvement"
    ELSE "poor"

_evaluate_savings_rate(rate) ==
    IF GE(rate, 30) THEN "very-good"
    ELSE IF GE(rate, 20) THEN "good"
    ELSE IF GE(rate, 10) THEN "fair"
    ELSE IF GE(rate, 5) THEN "needs-improvement"
    ELSE "poor"

_evaluate_emergency_fund(months) ==
    IF GE(months, 6) THEN "very-good"
    ELSE IF GE(months, 3) THEN "good"
    ELSE IF GE(months, 1) THEN "fair"
    ELSE "needs-improvement"

(***************************************************************************)
(* Narrative composer.  A list is built by appends in the order of the     *)
(* code's if statements; the joined string is kept as its separator and    *)
(* its parts.                                                              *)
(***************************************************************************)
AppendIf(cond, list, phrase) == IF cond THEN Append(list, phrase) ELSE list

Joined(sep, list, fallback) ==
    [sep |-> sep, parts |-> IF list # <<>> THEN list ELSE <<fallback>>]

_identify_strengths(income, expense, savings_rate, debt_ratio) ==
    IF income = 0 THEN ZeroDivisionError
    ELSE
        LET s1 == AppendIf(income > 4000000, <<>>, "stable income level")
            s2 == AppendIf(GE(savings_rate, 20), s1, "high savings rate")
            s3 == AppendIf(LE(debt_ratio, 20), s2, "low debt ratio")
            s4 == AppendIf(QuotLE(expense, income, 8, 10), s3,
                           "sound expense management")
        IN  Joined(", ", s4, "no notable strengths identified")

\* the slip: a savings rate of exactly 20 still asks for a higher one
_improvements_at_20(expense_ratio, savings_rate, emergency_months, debt_ratio) ==
    LET i1 == AppendIf(GT(expense_ratio, 80), <<>>, "reduce expense ratio")
        i2 == AppendIf(LE(savings_rate, 20), i1, "raise savings rate")
        i3 == AppendIf(LT(emergency_months, 3), i2, "build up emergency fund")
        i4 == AppendIf(GT(debt_ratio, 40), i3, "manage debt")
    IN  Joined(", ", i4, "maintain current status recommended")

_identify_improvements(expense_ratio, savings_rate, emergency_months, debt_ratio) ==
    LET i1 == AppendIf(GT(expense_ratio, 80), <<>>, "reduce expense ratio")
        i2 == AppendIf(LT(savings_rate, 20), i1, "raise savings rate")
        i3 == AppendIf(LT(emergency_months, 3), i2, "build up emergency fund")
        i4 == AppendIf(GT(debt_ratio, 40), i3, "manage debt")
    IN  Joined(", ", i4, "maintain current status recommended")

\* the amounts _format_currency renders into the phrases are kept as numbers
_recommend_improvements(income, expense, savings_rate, emergency_months) ==
    IF income = 0 THEN ZeroDivisionError
    ELSE
        LET r1 == AppendIf(LT(savings_rate, 20), <<>>,
                           [rule |-> "raise savings rate to 20%",
                            target |-> Ratio(income * 2, 10)])
            r2 == AppendIf(LT(emergency_months, 3), r1,
                           [rule |-> "build emergency fund up to",
                            target |-> Ratio(expense * 3, 1)])
            r3 == AppendIf(QuotGT(expense, income, 8, 10), r2,
                           [rule |-> "keep expense at or below",
                            target |-> Ratio(income * 8, 10)])
        IN  Joined("; ", r3, [rule |-> "maintain current status",
                              target |-> Zero])

\* the slip: the average taken over the checks that passed, not over four
_overall_over_passed(expense_ratio, savings_rate, emergency_months, debt_ratio) ==
    LET c1 == AppendIf(LE(expense_ratio, 80), <<>>, 1)
        c2 == AppendIf(GE(savings_rate, 20), c1, 1)
        c3 == AppendIf(GE(emergency_months, 3), c2, 1)
        scores == AppendIf(LE(debt_ratio, 40), c3, 1)
        avg_score == IF scores = <<>> THEN Zero ELSE Ratio(Len(scores), Len(scores))
    IN  IF avg_score.num * 10 >= 8 * avg_score.den THEN "very-good"
        ELSE IF avg_score.num * 10 >= 6 * avg_score.den THEN "good"
        ELSE IF avg_score.num * 10 >= 4 * avg_score.den THEN "fair"
        ELSE "needs-improvement"

\* avg_score = sum(scores) / 4, compared with 0.8, 0.6 and 0.4
_overall_assessment(expense_ratio, savings_rate, emergency_months, debt_ratio) ==
    LET c1 == AppendIf(LE(expense_ratio, 80), <<>>, 1)
        c2 == AppendIf(GE(savings_rate, 20), c1, 1)
        c3 == AppendIf(GE(emergency_months, 3), c2, 1)
        scores == AppendIf(LE(debt_ratio, 40), c3, 1)
        avg_score == Ratio(Len(scores), 4)
    IN  IF avg_score.num * 10 >= 8 * avg_score.den THEN "very-good"
        ELSE IF avg_score.num * 10 >= 6 * avg_score.den THEN "good"
        ELSE IF avg_score.num * 10 >= 4 * avg_score.den THEN "fair"
        ELSE "needs-improvement"

\* the slip: the neutral band entered at 20, the cutoff of the positive band
_conclusion_summary_neutral_at_20(income, expense, savings_rate, emergency_months) ==
    IF GE(savings_rate, 20) /\ GE(emergency_months, 3) THEN "positive"
    ELSE IF GE(savings_rate, 20) THEN "neutral"
    ELSE "cautionary"

_conclusion_summary(income, expense, savings_rate, emergency_months) ==
    IF GE(savings_rate, 20) /\ GE(emergency_months, 3) THEN "positive"
    ELSE IF GE(savings_rate, 10) THEN "neutral"
    ELSE "cautionary"

(***************************************************************************)
(* Metric calculator and the household report.                             *)
(*                                                                         *)
(* client_profile is the nested mapping reduced to the keys the report     *)
(* computes with:                                                          *)
(*   income, expense, investment, surplus   the four 3-month averages      *)
(*   total_assets, total_liability          numbers, or Missing            *)
(*   assets_detail    a function from category labels to their contents    *)
(*   monthly_cash_flow  the months in insertion order, each with the       *)
(*                    expense details of that month                        *)
(* A dict is [type |-> "dict", items |-> s], s its values (assets_detail)  *)
(* or its <<key, value>> pairs (expense details) in insertion order.       *)
(***************************************************************************)
PyDict(s) == [type |-> "dict", items |-> s]

liquid_categories == <<"free-deposit", "cash-equivalent">>

RECURSIVE SumAmounts(_)
SumAmounts(values) ==
    IF values = <<>> THEN 0
    ELSE _extract_amount(Head(values)).val + SumAmounts(Tail(values))

RECURSIVE LiquidFrom(_, _)
LiquidFrom(assets_detail, i) ==
    IF i > Len(liquid_categories) THEN 0
    ELSE LET category == liquid_categories[i]
             rest == LiquidFrom(assets_detail, i + 1)
         IN  IF category \in DOMAIN assets_detail
                THEN IF assets_detail[category].type = "dict"
                        THEN SumAmounts(assets_detail[category].items) + rest
                        ELSE rest
                ELSE rest

_calculate_liquid_assets(asset_liability) ==
    LiquidFrom(asset_liability.assets_detail, 1)

TopN == 5

\* the slip: x goes ahead of the items of its own amount, an unstable sort
RECURSIVE InsertDesc_unstable(_, _)
InsertDesc_unstable(x, s) ==
    IF s = <<>> THEN <<x>>
    ELSE IF Head(s)[2] > x[2] THEN <<Head(s)>> \o InsertDesc_unstable(x, Tail(s))
    ELSE <<x>> \o s

\* x goes behind every item whose amount is at least its own
RECURSIVE InsertDesc(_, _)
InsertDesc(x, s) ==
    IF s = <<>> THEN <<x>>
    ELSE IF Head(s)[2] >= x[2] THEN <<Head(s)>> \o InsertDesc(x, Tail(s))
    ELSE <<x>> \o s

\* sorted(items, key=lambda x: x[1], reverse=True): stable, so items of equal
\* amount keep the order they had
RECURSIVE SortedDesc(_)
SortedDesc(items) ==
    IF items = <<>> THEN <<>>
    ELSE InsertDesc(items[Len(items)], SortedDesc(SubSeq(items, 1, Len(items) - 1)))

Prefix(s, n) == SubSeq(s, 1, IF Len(s) < n THEN Len(s) ELSE n)

sorted_expenses(details) == Prefix(SortedDesc(details.items), TopN)

recent_months(monthly_cash_flow) ==
    IF Len(monthly_cash_flow) >= 3
        THEN SubSeq(monthly_cash_flow, Len(monthly_cash_flow) - 2,
                    Len(monthly_cash_flow))
        ELSE monthly_cash_flow

\* one entry per recent month: the lines of expense items the report lists
MonthlyExpenses(monthly_cash_flow) ==
    LET recent == recent_months(monthly_cash_flow)
    IN  [i \in 1..Len(recent) |->
            LET details == Get(recent[i].details, PyDict(<<>>))
            IN  [month |-> recent[i].month,
                 listed |-> IF details.type = "dict"
                               THEN sorted_expenses(details) ELSE <<>>]]

NotReached == [status |-> "not-reached"]

HouseholdReport(profile) ==
    LET avg_income == _extract_amount(Get(profile.income, PyStr(<<"0">>))).val
        avg_expense == _extract_amount(Get(profile.expense, PyStr(<<"0">>))).val
        avg_investment == _extract_amount(Get(profile.investment, PyStr(<<"0">>))).val
        avg_surplus == _extract_amount(Get(profile.surplus, PyStr(<<"0">>))).val
        total_assets == Get(profile.total_assets, PyInt(0)).val
        total_liability == Get(profile.total_liability, PyInt(0)).val
        savings_rate == IF avg_income > 0
                           THEN Ratio((avg_investment + avg_surplus) * 100, avg_income)
                           ELSE Zero
        expense_ratio == IF avg_income > 0
                            THEN Ratio(avg_expense * 100, avg_income) ELSE Zero
        debt_ratio == IF total_assets > 0
                         THEN Ratio(total_liability * 100, total_assets) ELSE Zero
        liquid_assets == _calculate_liquid_assets(profile)
        emergency_months == IF avg_expense > 0
                               THEN Ratio(liquid_assets, avg_expense) ELSE Zero
        strengths == _identify_strengths(avg_income, avg_expense, savings_rate,
                                         debt_ratio)
        raised == strengths = ZeroDivisionError
    IN  [status |-> IF raised THEN "ZeroDivisionError" ELSE "ok",
         avg_income |-> avg_income,
         avg_expense |-> avg_expense,
         avg_investment |-> avg_investment,
         avg_surplus |-> avg_surplus,
         savings_rate |-> savings_rate,
         expense_ratio |-> expense_ratio,
         debt_ratio |-> debt_ratio,
         liquid_assets |-> liquid_assets,
         emergency_months |-> emergency_months,
         expense_rating |-> _evaluate_expense_ratio(expense_ratio),
         savings_rating |-> _evaluate_savings_rate(savings_rate),
         emergency_rating |-> _evaluate_emergency_fund(emergency_months),
         monthly_expenses |-> MonthlyExpenses(profile.monthly_cash_flow),
         strengths |-> IF raised THEN NotReached ELSE strengths,
         improvements |->
            IF raised THEN NotReached
            ELSE _identify_improvements(expense_ratio, savings_rate,
                                        emergency_months, debt_ratio),
         recommendations |->
            IF raised THEN NotReached
            ELSE _recommend_improvements(avg_income, avg_expense, savings_rate,
                                         emergency_months),
         overall |->
            IF raised THEN "not-reached"
            ELSE _overall_assessment(expense_ratio, savings_rate,
                                     emergency_months, debt_ratio),
         conclusion |->
            IF raised THEN "not-reached"
            ELSE _conclusion_summary(avg_income, avg_expense, savings_rate,
                                     emergency_months)]

\* main() calls the generator; an exception leaves main's try block
generate_household_analysis_report ==
    /\ pc = "main"
    /\ household_report' = HouseholdReport(client_profile)
    /\ pc' = IF household_report'.status = "ok" THEN "household_done" ELSE "except"
    /\ UNCHANGED <<client_profile, goal_list, asset_names, yearly_weights,
                   goals_report, amount_str, amount>>

(***************************************************************************)
(* Asset allocation table.  An asset name is the set of the recognised     *)
(* keywords it contains; a weight is in thousandths, so that the code's    *)
(* 0.01 is 10.                                                             *)
(***************************************************************************)
Keywords == {"BOND", "KOSPI", "KOSDAQ", "S&P", "NASDAQ", "NIKKEI", "GLD"}

_classify_asset(asset_name) ==
    IF "BOND" \in asset_name THEN "stable-asset"
    ELSE IF "KOSPI" \in asset_name \/ "KOSDAQ" \in asset_name THEN "domestic-equity"
    ELSE IF "S&P" \in asset_name \/ "NASDAQ" \in asset_name \/ "NIKKEI" \in asset_name
        THEN "international-equity"
    ELSE IF "GLD" \in asset_name THEN "commodity"
    ELSE "other"

_estimate_return(asset_name) ==
    IF "BOND" \in asset_name THEN "3-5%"
    ELSE IF "KOSPI" \in asset_name \/ "KOSDAQ" \in asset_name THEN "6-8%"
    ELSE IF "S&P" \in asset_name \/ "NASDAQ" \in asset_name THEN "7-9%"
    ELSE IF "GLD" \in asset_name THEN "4-6%"
    ELSE "5-7%"

MinWeight == 10

\* the slip: a weight of exactly 0.01 gets a row
RECURSIVE allocation_data_inclusive(_, _, _)
allocation_data_inclusive(names, first_year_weights, i) ==
    IF i > Len(names) THEN <<>>
    ELSE LET asset_name == names[i]
             weight == IF i <= Len(first_year_weights)
                          THEN first_year_weights[i] ELSE 0
             rest == allocation_data_inclusive(names, first_year_weights, i + 1)
         IN  IF weight >= MinWeight
                THEN <<[asset |-> asset_name,
                        weight |-> weight,
                        class |-> _classify_asset(asset_name),
                        return |-> _estimate_return(asset_name)]>> \o rest
                ELSE rest

\* the rows appended for the assets at index i and after
RECURSIVE allocation_data(_, _, _)
allocation_data(names, first_year_weights, i) ==
    IF i > Len(names) THEN <<>>
    ELSE LET asset_name == names[i]
             weight == IF i <= Len(first_year_weights)
                          THEN first_year_weights[i] ELSE 0
             rest == allocation_data(names, first_year_weights, i + 1)
         IN  IF weight > MinWeight
                THEN <<[asset |-> asset_name,
                        weight |-> weight,
                        class |-> _classify_asset(asset_name),
                        return |-> _estimate_return(asset_name)]>> \o rest
                ELSE rest

_create_asset_allocation_table(names, weights) ==
    IF weights = <<>> \/ names = <<>> THEN <<>>
    ELSE allocation_data(names, weights[1], 1)

(***************************************************************************)
(* Financial goals summary.  A goal is a record of its five keys, each a   *)
(* value or Missing.                                                       *)
(***************************************************************************)
RECURSIVE GCD(_, _)
GCD(a, b) == IF b = 0 THEN a ELSE GCD(b, a % b)

\* the sum of two quotients, over the least common denominator
AddRatio(a, b) ==
    LET g == GCD(a.den, b.den)
    IN  Ratio(a.num * (b.den \div g) + b.num * (a.den \div g),
              (a.den \div g) * b.den)

goals_summary(goals) ==
    [i \in 1..Len(goals) |->
        [name |-> Get(goals[i].name, PyStr(<<"N", "/", "A">>)),
         years |-> Get(goals[i].years, PyInt(0)),
         target |-> Get(goals[i].target, PyInt(0)),
         priority |-> Get(goals[i].priority, PyInt(0)),
         necessity |-> Get(goals[i].necessity,
                          PyStr(<<"o", "p", "t", "i", "o", "n", "a", "l">>))]]

\* years * 12 of a goal, the divisor of its monthly amount
Divisor(goal) == Get(goal.years, PyInt(1)).val * 12

monthly_investment(goal) ==
    Ratio(Get(goal.target, PyInt(0)).val, Divisor(goal))

RECURSIVE total_monthly_investment(_)
total_monthly_investment(goals) ==
    IF goals = <<>> THEN Zero
    ELSE AddRatio(total_monthly_investment(SubSeq(goals, 1, Len(goals) - 1)),
                  monthly_investment(goals[Len(goals)]))

GoalsReport(goals, names, weights) ==
    IF goals = <<>>
        THEN [status |-> "ok", text |-> "no goals set",
              goals_summary |-> <<>>, asset_allocation |-> <<>>,
              monthly |-> <<>>, total |-> Zero]
    ELSE IF \E i \in 1..Len(goals) : Divisor(goals[i]) = 0
        THEN [status |-> "ZeroDivisionError", text |-> "not-reached",
              goals_summary |-> goals_summary(goals),
              asset_allocation |-> _create_asset_allocation_table(names, weights),
              monthly |-> <<>>, total |-> Zero]
    ELSE [status |-> "ok", text |-> "full report",
          goals_summary |-> goals_summary(goals),
          asset_allocation |-> _create_asset_allocation_table(names, weights),
          monthly |-> [i \in 1..Len(goals) |-> monthly_investment(goals[i])],
          total |-> total_monthly_investment(goals)]

generate_financial_goals_summary ==
    /\ pc = "household_done"
    /\ goals_report' = GoalsReport(goal_list, asset_names, yearly_weights)
    /\ pc' = IF goals_report'.status = "ok" THEN "goals_done" ELSE "except"
    /\ UNCHANGED <<client_profile, goal_list, asset_names, yearly_weights,
                   household_report, amount_str, amount>>

\* a direct call of the helper
extract_amount ==
    /\ pc = "_extract_amount"
    /\ amount' = _extract_amount(amount_str)
    /\ pc' = "returned"
    /\ UNCHANGED <<client_profile, goal_list, asset_names, yearly_weights,
                   household_report, goals_report, amount_str>>

(***************************************************************************)
(* The example data of main().                                             *)
(***************************************************************************)
ExampleProfile ==
    [income |-> PyStr(<<"4", ",", "7", "5", "1", ",", "0", "0", "9", "W">>),
     expense |-> PyStr(<<"3", ",", "1", "3", "8", ",", "1", "1", "5", "W">>),
     investment |-> PyStr(<<"8", "0", "0", ",", "0", "0", "0", "W">>),
     surplus |-> PyStr(<<"8", "1", "2", ",", "8", "9", "3", "W">>),
     total_assets |-> PyInt(37189716),
     total_liability |-> PyInt(0),
     assets_detail |-> [c \in {"free-deposit"} |-> PyDict(<<PyInt(1550152)>>)],
     monthly_cash_flow |-> <<>>]

ExampleGoals ==
    <<[name |-> PyStr(<<"s", "h", "o", "r", "t">>), years |-> PyInt(5),
       target |-> PyInt(63155583), priority |-> PyInt(2),
       necessity |-> PyStr(<<"r", "e", "q", "u", "i", "r", "e", "d">>)],
      [name |-> PyStr(<<"r", "e", "t", "i", "r", "e">>), years |-> PyInt(35),
       target |-> PyInt(496529103), priority |-> PyInt(1),
       necessity |-> PyStr(<<"r", "e", "q", "u", "i", "r", "e", "d">>)]>>

ExampleAssetNames ==
    <<{"KOSPI"}, {"KOSDAQ"}, {"S&P"}, {"NASDAQ"}, {"BOND"}, {"BOND"}>>

ExampleWeights ==
    <<<<300, 200, 200, 100, 100, 100>>, <<250, 150, 200, 150, 150, 100>>>>

(***************************************************************************)
(* Inputs.                                                                 *)
(***************************************************************************)
SeqsUpTo(S, n) == UNION {[1..k -> S] : k \in 0..n}

IncomeFields ==
    {Missing, PyInt(0 - 100), PyInt(0), PyStr(<<"1", "0", "0", "W">>), PyInt(5000000)}

ExpenseFields ==
    {Missing, PyInt(70), PyInt(71), PyStr(<<"8", "0", "W">>), PyInt(81), PyInt(90),
     PyInt(100), PyInt(101), PyInt(4500000)}

InvestmentFields == {Missing, PyInt(5), PyInt(10)}

SurplusFields == {PyInt(0), PyInt(10), PyStr(<<"2", "0">>), PyInt(1000000)}

AssetFields == {Missing, PyInt(100)}

LiabilityFields == {Missing, PyInt(20), PyInt(21), PyInt(40), PyInt(41)}

LiquidDetails ==
    {<<>>,
     [c \in {"free-deposit"} |-> PyDict(<<PyInt(100)>>)],
     [c \in {"free-deposit", "cash-equivalent"} |->
        IF c = "free-deposit" THEN PyDict(<<PyInt(100)>>)
        ELSE PyDict(<<PyStr(<<"1", "5", "0", "W">>), PyInt(50)>>)],
     [c \in {"free-deposit", "cash-equivalent", "investment"} |->
        IF c = "free-deposit" THEN PyInt(900)
        ELSE IF c = "cash-equivalent" THEN PyDict(<<PyInt(600)>>)
        ELSE PyDict(<<PyInt(5000)>>)]}

HouseholdProfiles ==
    [income : IncomeFields, expense : ExpenseFields, investment : InvestmentFields,
     surplus : SurplusFields, total_assets : AssetFields,
     total_liability : LiabilityFields, assets_detail : LiquidDetails,
     monthly_cash_flow : {<<>>}]

\* expense details: the categories are numbered in insertion order
DetailMappings ==
    {PyDict([i \in 1..Len(a) |-> <<i, a[i]>>]) :
        a \in SeqsUpTo(1..MaxAmountLevel, MaxCategories)}

DetailOptions == DetailMappings \cup {Missing, PyInt(0)}

\* n months; the last one has the details d, month i before it one item
CashFlow(n, d) ==
    [i \in 1..n |-> [month |-> i,
                     details |-> IF i = n THEN d ELSE PyDict(<<<<1, i>>>>)]]

CashFlows == {CashFlow(n, d) : n \in 1..MaxMonths, d \in DetailOptions} \cup {<<>>}

ExpenseProfiles ==
    {[ExampleProfile EXCEPT !.monthly_cash_flow = m] : m \in CashFlows}

GoalYears == {Missing, PyInt(0), PyInt(1), PyInt(5)}
GoalTargets == {Missing, PyInt(0), PyInt(6000)}

Goals ==
    [name : {PyStr(<<"g">>)}, years : GoalYears, target : GoalTargets,
     priority : {Missing, PyInt(1)},
     necessity : {PyStr(<<"r", "e", "q", "u", "i", "r", "e", "d">>)}]

GoalLists == SeqsUpTo(Goals, MaxGoals)

AllocationNames == {{}, {"BOND"}, {"KOSPI"}, {"S&P", "NIKKEI"}}
AllocationWeights == {0, 10, 11, 300}
WeightVectors == SeqsUpTo(AllocationWeights, MaxAssets + 1)

YearlyWeights ==
    {<<>>} \cup {<<w>> : w \in WeightVectors}
           \cup {<<w, <<300, 300>>>> : w \in WeightVectors}

AllAssetNames == SUBSET Keywords

AmountChars == {"0", "1", "2", ",", "W", "-", " ", "."}

AmountInputs ==
    {PyStr(s) : s \in SeqsUpTo(AmountChars, MaxLen)}
        \cup {PyInt(n) : n \in (0 - 2)..2}
        \cup {PyFloat(0 - 3, 2), PyFloat(1, 2), PyFloat(3, 2), PyFloat(2, 1), PyNone}

(***************************************************************************)
(* Specifications.  main() builds the object from its four inputs and      *)
(* calls the household generator and then the goals generator.             *)
(***************************************************************************)
Constructed(profile, goals, names, weights) ==
    /\ client_profile = profile
    /\ goal_list = goals
    /\ asset_names = names
    /\ yearly_weights = weights
    /\ pc = "main"
    /\ household_report = NotCalled
    /\ goals_report = NotCalled
    /\ amount_str = PyNone
    /\ amount = PyNone

\* the two calls of main(), in its order; the summary main() prints after
\* them reads the inputs only
Next == generate_household_analysis_report \/ generate_financial_goals_summary

\* every household profile, the example goals and allocation
Init ==
    \E profile \in HouseholdProfiles :
        Constructed(profile, ExampleGoals, ExampleAssetNames, ExampleWeights)

Spec == Init /\ [][Next]_vars

\* every goal list
InitGoals ==
    \E goals \in GoalLists :
        Constructed(ExampleProfile, goals, ExampleAssetNames, ExampleWeights)

SpecGoals == InitGoals /\ [][Next]_vars

\* every asset-name list and weight vectors
InitAllocation ==
    \E names \in SeqsUpTo(AllocationNames, MaxAssets), weights \in YearlyWeights :
        Constructed(ExampleProfile, ExampleGoals, names, weights)

SpecAllocation == InitAllocation /\ [][Next]_vars

\* every pair of asset names, both with a weight that gives a row
InitClassification ==
    \E a \in AllAssetNames, b \in AllAssetNames :
        Constructed(ExampleProfile, ExampleGoals, <<a, b>>, <<<<500, 500>>>>)

SpecClassification == InitClassification /\ [][Next]_vars

\* every cash-flow history
InitExpenses ==
    \E profile \in ExpenseProfiles :
        Constructed(profile, ExampleGoals, ExampleAssetNames, ExampleWeights)

SpecExpenses == InitExpenses /\ [][Next]_vars

\* a direct call of _extract_amount with every input
InitAmount ==
    /\ client_profile = ExampleProfile
    /\ goal_list = ExampleGoals
    /\ asset_names = ExampleAssetNames
    /\ yearly_weights = ExampleWeights
    /\ pc = "_extract_amount"
    /\ household_report = NotCalled
    /\ goals_report = NotCalled
    /\ amount_str \in AmountInputs
    /\ amount = PyNone

NextAmount == extract_amount

SpecAmount == InitAmount /\ [][NextAmount]_vars

(***************************************************************************)
(* Properties.                                                             *)
(***************************************************************************)
HouseholdCalled == household_report.status # "not-called"
HouseholdReturned == household_report.status = "ok"
GoalsCalled == goals_report.status # "not-called"
GoalsReturned == goals_report.status = "ok"

Range(s) == {s[i] : i \in 1..Len(s)}

\* C1: for every profile whose normalized average income is <= 0 (a missing
\* income field included) the household report computes expense_ratio = 0
\* and savings_rate = 0 and completes without a division fault.
C1_NonPositiveIncomeCompletes ==
    (HouseholdCalled /\ household_report.avg_income <= 0) =>
        /\ household_report.expense_ratio = Zero
        /\ household_report.savings_rate = Zero
        /\ household_report.status = "ok"

\* the inputs C2 speaks of: numbers, and strings of digits, thousands
\* separators, a sign and the currency suffix
NumericOrAmountString(v) ==
    \/ v.type \in {"int", "float"}
    \/ /\ v.type = "str"
       /\ Range(v.chars) \subseteq Digits \cup {",", "W", "-", "+"}

\* C2: for every input that is a number (negative and fractional ones
\* included) or a string of digits, thousands separators, an optional sign
\* and the currency suffix, _extract_amount returns a non-negative integer.
C2_AmountIsNonNegativeInteger ==
    (pc = "returned" /\ NumericOrAmountString(amount_str)) =>
        (amount.type = "int" /\ amount.val >= 0)

\* C3: generate_financial_goals_summary never raises: the fixed message for
\* an empty goal list, a full report for every other goal list, whatever
\* fields of a goal are missing or zero.
C3_GoalsSummaryNeverRaises ==
    GoalsCalled =>
        /\ goals_report.status = "ok"
        /\ goals_report.text = IF goal_list = <<>> THEN "no goals set"
                               ELSE "full report"

\* the number of the four pass/fail checks a report's metrics pass
PassCount(r) ==
    (IF LE(r.expense_ratio, 80) THEN 1 ELSE 0)
        + (IF GE(r.savings_rate, 20) THEN 1 ELSE 0)
        + (IF GE(r.emergency_months, 3) THEN 1 ELSE 0)
        + (IF LE(r.debt_ratio, 40) THEN 1 ELSE 0)

\* C4 as claimed: the overall assessment is decided by the number of passing
\* checks: 4 give very-good, 3 good, 2 fair, and 0 or 1 the lowest band of
\* the five-tier scale, poor.
C4_OverallLowestBandIsPoor ==
    HouseholdReturned =>
        household_report.overall =
            CASE PassCount(household_report) = 4 -> "very-good"
              [] PassCount(household_report) = 3 -> "good"
              [] PassCount(household_report) = 2 -> "fair"
              [] OTHER -> "poor"

\* C4 amended: the overall assessment is decided by the number of passing
\* checks: 4 give very-good, 3 good, 2 fair, and 0 or 1 needs-improvement;
\* poor is never given.
C4_OverallFromPassCount ==
    HouseholdReturned =>
        household_report.overall =
            CASE PassCount(household_report) = 4 -> "very-good"
              [] PassCount(household_report) = 3 -> "good"
              [] PassCount(household_report) = 2 -> "fair"
              [] OTHER -> "needs-improvement"

C4_Witness ==
    /\ HouseholdReturned
    /\ PassCount(household_report) = 1
    /\ household_report.overall = "needs-improvement"

Rank(tier) ==
    CASE tier = "very-good" -> 4 [] tier = "good" -> 3 [] tier = "fair" -> 2
      [] tier = "needs-improvement" -> 1 [] tier = "poor" -> 0

\* C5: the rating tiers are monotonic: for the metric value a of a report
\* and every value b of 0..MaxMetric, a <= b gives b a savings tier and an
\* emergency-fund tier no worse than a's and an expense-ratio tier no better
\* than a's, and b <= a the converse.
C5_TiersMonotonic ==
    HouseholdCalled =>
        \A b \in 0..MaxMetric :
            /\ LE(household_report.savings_rate, b) =>
                  Rank(_evaluate_savings_rate(Ratio(b, 1)))
                      >= Rank(household_report.savings_rating)
            /\ GE(household_report.savings_rate, b) =>
                  Rank(_evaluate_savings_rate(Ratio(b, 1)))
                      <= Rank(household_report.savings_rating)
            /\ LE(household_report.emergency_months, b) =>
                  Rank(_evaluate_emergency_fund(Ratio(b, 1)))
                      >= Rank(household_report.emergency_rating)
            /\ GE(household_report.emergency_months, b) =>
                  Rank(_evaluate_emergency_fund(Ratio(b, 1)))
                      <= Rank(household_report.emergency_rating)
            /\ LE(household_report.expense_ratio, b) =>
                  Rank(_evaluate_expense_ratio(Ratio(b, 1)))
                      <= Rank(household_report.expense_rating)
            /\ GE(household_report.expense_ratio, b) =>
                  Rank(_evaluate_expense_ratio(Ratio(b, 1)))
                      >= Rank(household_report.expense_rating)

C5_Witness ==
    /\ HouseholdCalled
    /\ household_report.savings_rating = "fair"
    /\ household_report.emergency_rating = "good"
    /\ household_report.expense_rating = "needs-improvement"

\* parts holds, of the rules in their fixed order, exactly the fired ones,
\* each once and in that order, and the fallback alone when none fired
ComposedInOrder(parts, rules, fired, fallback) ==
    IF \A k \in 1..Len(rules) : ~fired[k]
        THEN parts = <<fallback>>
        ELSE /\ \A k \in 1..Len(rules) : fired[k] <=> rules[k] \in Range(parts)
             /\ Range(parts) \subseteq Range(rules)
             /\ \A i, j \in 1..Len(parts) :
                    i < j => \E k, l \in 1..Len(rules) :
                                k < l /\ parts[i] = rules[k] /\ parts[j] = rules[l]

StrengthRules ==
    <<"stable income level", "high savings rate", "low debt ratio",
      "sound expense management">>

ImprovementRules ==
    <<"reduce expense ratio", "raise savings rate", "build up emergency fund",
      "manage debt">>

RecommendationRules ==
    <<"raise savings rate to 20%", "build emergency fund up to",
      "keep expense at or below">>

\* the rules of a list that fire for the metrics of report r (the fourth
\* strength rule and the third recommendation rule divide by the income)
StrengthsFired(r) ==
    <<r.avg_income > 4000000, GE(r.savings_rate, 20), LE(r.debt_ratio, 20),
      r.avg_income # 0 /\ QuotLE(r.avg_expense, r.avg_income, 8, 10)>>

ImprovementsFired(r) ==
    <<GT(r.expense_ratio, 80), LT(r.savings_rate, 20), LT(r.emergency_months, 3),
      GT(r.debt_ratio, 40)>>

RecommendationsFired(r) ==
    <<LT(r.savings_rate, 20), LT(r.emergency_months, 3),
      r.avg_income # 0 /\ QuotGT(r.avg_expense, r.avg_income, 8, 10)>>

RuleNames(parts) == [i \in 1..Len(parts) |-> parts[i].rule]

ComposersInOrder(r) ==
    /\ ComposedInOrder(r.strengths.parts, StrengthRules, StrengthsFired(r),
                       "no notable strengths identified")
    /\ ComposedInOrder(r.improvements.parts, ImprovementRules, ImprovementsFired(r),
                       "maintain current status recommended")
    /\ ComposedInOrder(RuleNames(r.recommendations.parts), RecommendationRules,
                       RecommendationsFired(r), "maintain current status")

\* C6: in each of the three composers, for every subset of rules that fire,
\* the output holds exactly the phrases of the fired rules, each once, in the
\* fixed rule order, and the fallback phrase if and only if no rule fired.
C6_ComposersKeepRuleOrder ==
    HouseholdCalled =>
        (household_report.status = "ok" /\ ComposersInOrder(household_report))

\* what C6 says of the calls that return
ComposersKeepRuleOrderWhenReturned ==
    HouseholdReturned => ComposersInOrder(household_report)

\* index i of the asset-name list has a first-year weight over 0.01
Kept(i) ==
    /\ yearly_weights # <<>>
    /\ i <= Len(yearly_weights[1])
    /\ yearly_weights[1][i] > 10

KeptIndices == {i \in 1..Len(asset_names) : Kept(i)}

\* the k-th kept index, counted from 1
KthKept(k) == CHOOSE i \in KeptIndices : Cardinality({j \in KeptIndices : j < i}) = k - 1

Before(x, y) == x[2] > y[2] \/ (x[2] = y[2] /\ x[1] < y[1])

\* listed is the top five of the items in the listing order
TopFive(listed, items) ==
    /\ Len(listed) = (IF Len(items) < 5 THEN Len(items) ELSE 5)
    /\ Range(listed) \subseteq Range(items)
    /\ \A k \in 1..(Len(listed) - 1) : Before(listed[k], listed[k + 1])
    /\ \A x \in Range(items) \ Range(listed) :
          \A y \in Range(listed) : Before(y, x)

\* C8: for every month listed, the expense items are the at most five
\* categories with the largest amounts, in descending order of amount,
\* categories of equal amount in the insertion order of the mapping; no
\* category outside the top five is listed.
C8_TopFiveExpenses ==
    HouseholdReturned =>
        LET flow == client_profile.monthly_cash_flow
            out == household_report.monthly_expenses
            skipped == IF Len(flow) > 3 THEN Len(flow) - 3 ELSE 0
        IN  /\ Len(out) = Len(flow) - skipped
            /\ \A i \in 1..Len(out) :
                  /\ out[i].month = flow[skipped + i].month
                  /\ flow[skipped + i].details.type = "dict" =>
                        TopFive(out[i].listed, flow[skipped + i].details.items)

\* a month of six categories where the fifth listed and the one left out
\* have the same amount
C8_Witness ==
    /\ HouseholdReturned
    /\ \E i \in 1..Len(household_report.monthly_expenses) :
          LET listed == household_report.monthly_expenses[i].listed
              m == client_profile.monthly_cash_flow[
                      Len(client_profile.monthly_cash_flow)]
          IN  /\ i = Len(household_report.monthly_expenses)
              /\ m.details.type = "dict"
              /\ Len(m.details.items) = 6
              /\ Len(listed) = 5
              /\ listed[1][1] > listed[2][1]
              /\ \E x \in Range(m.details.items) \ Range(listed) :
                    x[2] = listed[5][2]

\* C9: the expected-return range of an allocation row is fixed per class:
\* two rows of the same class have the same range.
C9_ReturnFixedPerClass ==
    GoalsReturned =>
        \A i, j \in 1..Len(goals_report.asset_allocation) :
            goals_report.asset_allocation[i].class
                    = goals_report.asset_allocation[j].class
                => goals_report.asset_allocation[i].return
                    = goals_report.asset_allocation[j].return

\* C10: the conclusion is positive if and only if savings_rate >= 20 and
\* emergency_months >= 3; otherwise neutral if and only if savings_rate >=
\* 10; otherwise cautionary.
C10_ConclusionBands ==
    HouseholdReturned =>
        LET r == household_report
            both == GE(r.savings_rate, 20) /\ GE(r.emergency_months, 3)
        IN  /\ r.conclusion \in {"positive", "neutral", "cautionary"}
            /\ r.conclusion = "positive" <=> both
            /\ r.conclusion = "neutral" <=> (~both /\ GE(r.savings_rate, 10))
            /\ r.conclusion = "cautionary" <=> (~both /\ LT(r.savings_rate, 10))

C10_Witness ==
    /\ HouseholdReturned
    /\ GE(household_report.savings_rate, 20)
    /\ LT(household_report.emergency_months, 3)
    /\ household_report.conclusion = "neutral"

\* the improvement phrases a joined improvements text lists: none when it
\* is the fallback
ImprovementPhrases(joined) ==
    IF joined.parts = <<"maintain current status recommended">> THEN <<>>
    ELSE joined.parts

\* C11: within one household report the improvements list and the overall
\* assessment agree: the improvements text is the maintain-current-status
\* fallback if and only if the overall assessment is very-good, and the
\* number of improvement phrases is 4 minus the number of passing checks.
C11_ImprovementsAgreeWithOverall ==
    HouseholdReturned =>
        /\ household_report.improvements.parts
                = <<"maintain current status recommended">>
            <=> household_report.overall = "very-good"
        /\ Len(ImprovementPhrases(household_report.improvements))
            = 4 - PassCount(household_report)

\* a report at the savings cutoff of 20 whose only failing check is the
\* emergency fund
C11_Witness ==
    /\ HouseholdReturned
    /\ household_report.savings_rate.num = 20 * household_report.savings_rate.den
    /\ household_report.improvements.parts = <<"build up emergency fund">>
    /\ household_report.overall = "good"

\* a report that passes all four checks
C11_WitnessFallback ==
    /\ HouseholdReturned
    /\ household_report.improvements.parts
          = <<"maintain current status recommended">>
    /\ household_report.overall = "very-good"

====
